---- MODULE Spec2Model ----
(***************************************************************************)
(* Model of src/frechet_space.ino: the sampling loop, the ring buffer, the *)
(* windowed curve extraction, the memoized discrete Frechet recurrence and *)
(* the orchestrator that runs it over adjacent channel pairs.              *)
(*                                                                         *)
(* Floats are modelled by integers.  A voltage (raw / 1023.0) * 5.0 is     *)
(* kept in units of 1/1023 V, i.e. as raw * 5; curve values and distances  *)
(* are integers in the same unit.  NUM_CHANNELS, HISTORY_SIZE and          *)
(* FRECHET_WINDOW are scaled down from 4, 50 and 20.  The serial command   *)
(* handling, calculateRMS and outputMathematicalValues do not write any    *)
(* variable modelled here and are left out.                                *)
(***************************************************************************)
EXTENDS Integers, Sequences, FiniteSets, TLC

\* ------------------------------------------------------------------ sizes
NUM_CHANNELS == 2
HISTORY_SIZE == 4
FRECHET_WINDOW == 3

\* ------------------------------------------------------ program constants
WINDOW_CAP == 20
ADC_MAX == 1023
VREF == 5
INFINITY == 1000000
UNSET == -1

\* raw ADC readings a channel can deliver in the model
RawLevels == {0, ADC_MAX}
\* values of the curves handed to the engine on its own
CurveVals == {0, 1, 3, 7}
\* enough ticks to wrap the write cursor and regrow the window to 3
MaxTicks == HISTORY_SIZE + 3
\* ticks on which discreteFrechetDistance is called with any window
MaxProbes == 3

Channels == 0 .. (NUM_CHANNELS - 1)
Slots == 0 .. (HISTORY_SIZE - 1)
Cells == (0 .. (FRECHET_WINDOW - 1)) \X (0 .. (FRECHET_WINDOW - 1))

VARIABLES
  channelData,       \* [channel -> [slot -> voltage]]
  dataIndex,         \* write cursor
  frechetDistances,  \* [channel -> distance]
  dpTable,           \* [cell -> value], shared memo table
  ticks,             \* number of sampling ticks completed
  history,           \* the samples written by the last FRECHET_WINDOW ticks
  lastTick,          \* what the last tick did (window, engine calls, ...)
  pc,                \* "loop": firmware; "call"/"done": engine run on its own
  curveA,
  curveB,
  result             \* outcome of the engine run on curveA, curveB

vars == <<channelData, dataIndex, frechetDistances, dpTable, ticks, history,
          lastTick, pc, curveA, curveB, result>>

\* ---------------------------------------------------------------- helpers
\* C's % : the result takes the sign of the dividend
CMod(a, b) == IF a >= 0 THEN a % b ELSE -((-a) % b)

max(a, b) == IF a > b THEN a ELSE b

min(a, b) == IF a < b THEN a ELSE b

euclideanDistance(a, b) == IF (a - b) > 0 THEN (a - b) ELSE -(a - b)

Voltage(raw) == raw * VREF

\* ---------------------------------------------------------------- sampling
sampleChannels(cd, di, raw) ==
  [ch \in Channels |-> [cd[ch] EXCEPT ![di] = Voltage(raw[ch])]]

\* --------------------------------------------------------------- extraction
actualWindow(windowSize) ==
  min(windowSize, min(FRECHET_WINDOW, HISTORY_SIZE))

RingDividend_OffByOne(di, aw, i) == di - aw + i + HISTORY_SIZE

RingDividend(di, aw, i) == di - aw + 1 + i + HISTORY_SIZE

RingIndex(di, aw, i) == CMod(RingDividend(di, aw, i), HISTORY_SIZE)

ExtractCurve(cd, di, ch, aw) ==
  [i \in 0 .. (aw - 1) |-> cd[ch][RingIndex(di, aw, i)]]

\* ------------------------------------------------------------------- engine
MainRecurrence_NoDiagonal(option1, option2, option3, pointDistance) ==
  max(min(option1, option3), pointDistance)

MainRecurrence_NoLeft(option1, option2, option3, pointDistance) ==
  max(min(option1, option2), pointDistance)

MainRecurrence_MaxMin(option1, option2, option3, pointDistance) ==
  min(max(option1, max(option2, option3)), pointDistance)

MainRecurrence_MinOnly(option1, option2, option3, pointDistance) ==
  min(min(option1, min(option2, option3)), pointDistance)

MainRecurrence(option1, option2, option3, pointDistance) ==
  max(min(option1, min(option2, option3)), pointDistance)

\* dpTable[i][j] = x; return dpTable[i][j]
AssignCell(m, i, j, x) ==
  [t |-> [m.t EXCEPT ![<<i, j>>] = x],
   log |-> Append(m.log, <<"set", i, j>>),
   v |-> x]

\* m.t is the table, m.log the table accesses so far; the result adds the
\* returned value v
RECURSIVE frechetDP(_, _, _, _, _)
frechetDP(m, curve1, curve2, i, j) ==
  IF i < 0 \/ j < 0
  THEN [t |-> m.t, log |-> m.log, v |-> INFINITY]
  ELSE IF m.t[<<i, j>>] >= 0
  THEN [t |-> m.t, log |-> Append(m.log, <<"hit", i, j>>), v |-> m.t[<<i, j>>]]
  ELSE
    LET pointDistance == euclideanDistance(curve1[i], curve2[j])
        m0 == [t |-> m.t, log |-> Append(m.log, <<"miss", i, j>>)]
    IN IF i = 0 /\ j = 0
       THEN AssignCell(m0, i, j, pointDistance)
       ELSE IF i > 0 /\ j = 0
       THEN LET r == frechetDP(m0, curve1, curve2, i - 1, 0)
            IN AssignCell(r, i, j, max(r.v, pointDistance))
       ELSE IF i = 0 /\ j > 0
       THEN LET r == frechetDP(m0, curve1, curve2, 0, j - 1)
            IN AssignCell(r, i, j, max(r.v, pointDistance))
       ELSE LET r1 == frechetDP(m0, curve1, curve2, i - 1, j)
                r2 == frechetDP(r1, curve1, curve2, i - 1, j - 1)
                r3 == frechetDP(r2, curve1, curve2, i, j - 1)
            IN AssignCell(r3, i, j,
                          MainRecurrence(r1.v, r2.v, r3.v, pointDistance))

InitTable_SkipsLast(dp, aw) ==
  [c \in DOMAIN dp |->
     IF c[1] < aw - 1 /\ c[2] < aw - 1 THEN UNSET ELSE dp[c]]

InitTable(dp, aw) ==
  [c \in DOMAIN dp |-> IF c[1] < aw /\ c[2] < aw THEN UNSET ELSE dp[c]]

\* the table reset and the top-level call of the recurrence
engine(dp, curve1, curve2, aw) ==
  frechetDP([t |-> InitTable(dp, aw), log |-> <<>>],
            curve1, curve2, aw - 1, aw - 1)

discreteFrechetDistance(cd, di, dp, ch1, ch2, windowSize) ==
  LET aw == actualWindow(windowSize)
      curve1 == ExtractCurve(cd, di, ch1, aw)
      curve2 == ExtractCurve(cd, di, ch2, aw)
      r == engine(dp, curve1, curve2, aw)
  IN [dist |-> r.v, dp |-> r.t, log |-> r.log,
      ch1 |-> ch1, ch2 |-> ch2, requested |-> windowSize, aw |-> aw,
      curve1 |-> curve1, curve2 |-> curve2,
      ring |-> {<<RingDividend(di, aw, i), RingIndex(di, aw, i)>> :
                  i \in 0 .. (aw - 1)},
      curveIdx |-> 0 .. (aw - 1)]

\* one pass over the table accesses of an invocation, from entry k on:
\* assigned = the cells assigned so far, twice = the cells assigned again,
\* hits = the cells returned from the memo, stale = those of them that the
\* invocation had not assigned before the hit
RECURSIVE LogAudit(_, _, _)
LogAudit(log, k, a) ==
  IF k > Len(log)
  THEN a
  ELSE LET c == <<log[k][2], log[k][3]>>
       IN LogAudit(log, k + 1,
            IF log[k][1] = "set"
            THEN [a EXCEPT !.assigned = @ \cup {c},
                           !.twice = IF c \in a.assigned THEN @ \cup {c} ELSE @]
            ELSE IF log[k][1] = "hit"
            THEN [a EXCEPT !.hits = @ \cup {c},
                           !.stale = IF c \in a.assigned THEN @ ELSE @ \cup {c}]
            ELSE a)

NoAccess == [assigned |-> {}, twice |-> {}, hits |-> {}, stale |-> {}]

\* what the state keeps of one call of discreteFrechetDistance
CallRecord(r) ==
  [ch1 |-> r.ch1, ch2 |-> r.ch2, requested |-> r.requested, aw |-> r.aw,
   curve1 |-> r.curve1, curve2 |-> r.curve2, dist |-> r.dist,
   ring |-> r.ring, curveIdx |-> r.curveIdx,
   cells |-> {<<r.log[k][2], r.log[k][3]>> : k \in 1 .. Len(r.log)}]

\* the same, with the audit of the call's table accesses
AuditedCall(r) == CallRecord(r) @@ [audit |-> LogAudit(r.log, 1, NoAccess)]

\* ------------------------------------------------------------- orchestrator
OrchWindow_OneAhead(di) == min(FRECHET_WINDOW, min(WINDOW_CAP, di + 2))

OrchWindow(di) == min(FRECHET_WINDOW, min(WINDOW_CAP, di + 1))

LowData_Below2(window) == window < 2

LowData(window) == window < 3

StorePair_NextSlot(fd, ch, d) == [fd EXCEPT ![ch + 1] = d]

StorePair(fd, ch, d) == [fd EXCEPT ![ch] = d]

\* the slots of frechetDistances that StorePair writes for pair ch
StoredSlots(ch) ==
  {s \in Channels : StorePair([x \in Channels |-> 0], ch, 1)[s] = 1}

RECURSIVE PairLoop(_, _, _, _, _)
PairLoop(cd, di, window, st, ch) ==
  IF ch >= NUM_CHANNELS - 1
  THEN st
  ELSE LET r == discreteFrechetDistance(cd, di, st.dp, ch, ch + 1, window)
       IN PairLoop(cd, di, window,
                   [fd |-> StorePair(st.fd, ch, r.dist),
                    dp |-> r.dp,
                    calls |-> Append(st.calls, CallRecord(r)),
                    stored |-> st.stored \cup StoredSlots(ch)],
                   ch + 1)

calculateDiscreteFrechetDistances(cd, di, fd, dp) ==
  LET window == OrchWindow(di)
  IN IF LowData(window)
     THEN [fd |-> [ch \in Channels |-> 0], dp |-> dp, calls |-> <<>>,
           stored |-> {}, window |-> window]
     ELSE LET st == PairLoop(cd, di, window,
                             [fd |-> fd, dp |-> dp, calls |-> <<>>,
                              stored |-> {}], 0)
          IN [fd |-> [st.fd EXCEPT ![NUM_CHANNELS - 1] = 0],
              dp |-> st.dp, calls |-> st.calls, stored |-> st.stored,
              window |-> window]

\* -------------------------------------------------------------------- state
NoTick == [window |-> 0, cursor |-> 0, calls |-> <<>>, stored |-> {}]

NoResult == [ab |-> 0, ba |-> 0, table |-> [c \in Cells |-> 0]]

\* the globals after setup()
SetupState ==
  /\ channelData = [ch \in Channels |-> [s \in Slots |-> 0]]
  /\ dataIndex = 0
  /\ frechetDistances = [ch \in Channels |-> 0]
  /\ dpTable = [c \in Cells |-> 0]
  /\ ticks = 0
  /\ history = <<>>
  /\ lastTick = NoTick

Init ==
  /\ SetupState
  /\ pc = "loop"
  /\ curveA = <<>>
  /\ curveB = <<>>
  /\ result = NoResult

LastN(s, n) == IF Len(s) <= n THEN s ELSE SubSeq(s, Len(s) - n + 1, Len(s))

\* one pass of loop() in which the sampling interval has elapsed
Tick(raw) ==
  /\ pc = "loop"
  /\ ticks < MaxTicks
  /\ \E cd \in {sampleChannels(channelData, dataIndex, raw)} :
     \E r \in {calculateDiscreteFrechetDistances(cd, dataIndex,
                                                 frechetDistances, dpTable)} :
        /\ channelData' = cd
        /\ frechetDistances' = r.fd
        /\ dpTable' = r.dp
        /\ lastTick' = [window |-> r.window, cursor |-> dataIndex,
                        calls |-> r.calls, stored |-> r.stored]
  /\ dataIndex' = CMod(dataIndex + 1, HISTORY_SIZE)
  /\ ticks' = ticks + 1
  /\ history' = LastN(Append(history, [ch \in Channels |-> Voltage(raw[ch])]),
                      FRECHET_WINDOW)
  /\ UNCHANGED <<pc, curveA, curveB, result>>

Next == \E raw \in [Channels -> RawLevels] : Tick(raw)

Spec == Init /\ [][Next]_vars

\* ------------------------------------------- the engine run on its own
FromSeq(s) == [i \in 0 .. (Len(s) - 1) |-> s[i + 1]]

CurveLen(c) == Cardinality(DOMAIN c)

ExamplePairs ==
  { <<FromSeq(<<1, 2, 3>>), FromSeq(<<1, 2, 5>>)>>,
    <<FromSeq(<<0, 0>>), FromSeq(<<1, 1>>)>> }

CurvePairs ==
  UNION { [0 .. (W - 1) -> CurveVals] \X [0 .. (W - 1) -> CurveVals] :
            W \in 1 .. FRECHET_WINDOW }
  \cup { p \in ExamplePairs : CurveLen(p[1]) <= FRECHET_WINDOW }

InitEngine ==
  /\ SetupState
  /\ pc = "call"
  /\ \E p \in CurvePairs : curveA = p[1] /\ curveB = p[2]
  /\ result = NoResult

\* engine(A, B), then engine(B, A) on the table the first call left
EngineTest ==
  /\ pc = "call"
  /\ \E r1 \in {engine(dpTable, curveA, curveB, CurveLen(curveA))} :
     \E r2 \in {engine(r1.t, curveB, curveA, CurveLen(curveA))} :
        /\ result' = [ab |-> r1.v, ba |-> r2.v, table |-> r1.t]
        /\ dpTable' = r2.t
  /\ pc' = "done"
  /\ UNCHANGED <<channelData, dataIndex, frechetDistances, ticks, history,
                 lastTick, curveA, curveB>>

NextEngine == EngineTest

SpecEngine == InitEngine /\ [][NextEngine]_vars

\* the firmware loop and the engine run on its own, side by side
InitAll == Init \/ InitEngine

NextAll == Next \/ NextEngine

SpecAll == InitAll /\ [][NextAll]_vars

\* ------------------- discreteFrechetDistance asked for any window length
RequestedWindows == 1 .. HISTORY_SIZE

\* a tick whose extraction is requested with window req instead of the
\* orchestrator's window, on the first MaxProbes ticks
ProbeTick(raw, req) ==
  /\ pc = "loop"
  /\ ticks < MaxProbes
  /\ \E cd \in {sampleChannels(channelData, dataIndex, raw)} :
     \E r \in {discreteFrechetDistance(cd, dataIndex, dpTable, 0, 1, req)} :
        /\ channelData' = cd
        /\ frechetDistances' = StorePair(frechetDistances, 0, r.dist)
        /\ dpTable' = r.dp
        /\ lastTick' = [window |-> req, cursor |-> dataIndex,
                        calls |-> <<AuditedCall(r)>>,
                        stored |-> StoredSlots(0)]
  /\ dataIndex' = CMod(dataIndex + 1, HISTORY_SIZE)
  /\ ticks' = ticks + 1
  /\ history' = LastN(Append(history, [ch \in Channels |-> Voltage(raw[ch])]),
                      FRECHET_WINDOW)
  /\ UNCHANGED <<pc, curveA, curveB, result>>

NextExtract ==
  \E raw \in [Channels -> RawLevels], req \in RequestedWindows :
     ProbeTick(raw, req)

SpecExtract == Init /\ [][NextExtract]_vars

\* ------------------------------------------------- reference definitions
AbsDiff(a, b) == IF a >= b THEN a - b ELSE b - a

SetMin(S) == CHOOSE x \in S : \A y \in S : x <= y

SetMax(S) == CHOOSE x \in S : \A y \in S : x >= y

\* samples in the ring buffer once the last tick has written its own
Collected == IF ticks < HISTORY_SIZE THEN ticks ELSE HISTORY_SIZE

\* all monotone correspondences from (0,0) to (i,j), as sequences of pairs
RECURSIVE PathsTo(_, _)
PathsTo(i, j) ==
  IF i < 0 \/ j < 0 THEN {}
  ELSE IF i = 0 /\ j = 0 THEN { << <<0, 0>> >> }
  ELSE { Append(p, <<i, j>>) :
           p \in PathsTo(i - 1, j) \cup PathsTo(i, j - 1)
                   \cup PathsTo(i - 1, j - 1) }

AllPaths == [W \in 1 .. FRECHET_WINDOW |-> PathsTo(W - 1, W - 1)]

FrechetByDefinition(A, B) ==
  SetMin({ SetMax({ AbsDiff(A[p[k][1]], B[p[k][2]]) : k \in 1 .. Len(p) }) :
             p \in AllPaths[CurveLen(A)] })

\* the table filled bottom-up, cell k = i * W + j after all smaller k
RECURSIVE BottomUpFill(_, _, _, _, _)
BottomUpFill(F, A, B, W, k) ==
  IF k >= W * W THEN F
  ELSE LET i == k \div W
           j == k % W
           d == AbsDiff(A[i], B[j])
           x == IF i = 0 /\ j = 0 THEN d
                ELSE IF j = 0 THEN IF F[<<i - 1, 0>>] > d THEN F[<<i - 1, 0>>] ELSE d
                ELSE IF i = 0 THEN IF F[<<0, j - 1>>] > d THEN F[<<0, j - 1>>] ELSE d
                ELSE LET m == SetMin({F[<<i - 1, j>>], F[<<i - 1, j - 1>>],
                                      F[<<i, j - 1>>]})
                     IN IF m > d THEN m ELSE d
       IN BottomUpFill([F EXCEPT ![<<i, j>>] = x], A, B, W, k + 1)

BottomUp(A, B) ==
  LET W == CurveLen(A)
  IN BottomUpFill([c \in (0 .. (W - 1)) \X (0 .. (W - 1)) |-> UNSET],
                  A, B, W, 0)

\* ------------------------------------------------------------- properties
WindowCells(W) == (0 .. (W - 1)) \X (0 .. (W - 1))

CallsOf(t) == { t.calls[k] : k \in 1 .. Len(t.calls) }

\* the sample channel ch received back ticks before the last tick
Written(ch, back) == history[Len(history) - back][ch]

\* C1: the value the engine returns for curves A, B of length W is the
\* minimum over all monotone correspondences from (0,0) to (W-1,W-1) of the
\* largest |A[i]-B[j]| on the correspondence; [1,2,3] against [1,2,5] gives
\* 2, [0,0] against [1,1] gives 1, and W = 1 gives |A[0]-B[0]|.
C1_EngineIsFrechet ==
  pc = "done" =>
    /\ result.ab = FrechetByDefinition(curveA, curveB)
    /\ (curveA = FromSeq(<<1, 2, 3>>) /\ curveB = FromSeq(<<1, 2, 5>>))
          => result.ab = 2
    /\ (curveA = FromSeq(<<0, 0>>) /\ curveB = FromSeq(<<1, 1>>))
          => result.ab = 1
    /\ CurveLen(curveA) = 1 => result.ab = AbsDiff(curveA[0], curveB[0])

C1_Witness ==
  /\ pc = "done"
  /\ curveA = FromSeq(<<1, 2, 3>>)
  /\ curveB = FromSeq(<<1, 2, 5>>)
  /\ result.ab = 2

\* C2: at every tick the orchestrator's window is min(FRECHET_WINDOW,
\* samples collected so far), the latter never decreasing, so that from the
\* third tick on every tick runs the engine for each adjacent pair.
C2_WindowFollowsCollected ==
  ticks >= 1 =>
    /\ lastTick.window = min(FRECHET_WINDOW, Collected)
    /\ ticks >= 3 => Len(lastTick.calls) = NUM_CHANNELS - 1

\* C3: discreteFrechetDistance uses the window min(requested,
\* FRECHET_WINDOW, samples collected so far) and reads only slots written
\* since start.
C3_ExtractorClampsToCollected ==
  \A c \in CallsOf(lastTick) :
    /\ c.aw = min(c.requested, min(FRECHET_WINDOW, Collected))
    /\ \A x \in c.ring : x[2] < Collected

\* C4: when the engine runs with window W, curve[i] is the sample written
\* W-1-i ticks before the current tick, for both channels of the pair.
C4_CurvesAreLatestSamples ==
  \A c \in CallsOf(lastTick) :
    /\ DOMAIN c.curve1 = 0 .. (c.aw - 1)
    /\ DOMAIN c.curve2 = 0 .. (c.aw - 1)
    /\ \A i \in 0 .. (c.aw - 1) :
         /\ c.curve1[i] = Written(c.ch1, c.aw - 1 - i)
         /\ c.curve2[i] = Written(c.ch2, c.aw - 1 - i)

C4_Witness ==
  /\ ticks > HISTORY_SIZE
  /\ \E c \in CallsOf(lastTick) :
       /\ c.aw = FRECHET_WINDOW
       /\ c.curve1[0] # c.curve1[c.aw - 1]
       /\ c.curve2[0] # c.curve2[1]

\* C5: a tick whose window is below 3 sets every entry of frechetDistances
\* to 0, calls the engine for no pair and leaves dpTable as it was.
C5_LowDataShortCircuit ==
  [][(pc = "loop" /\ lastTick'.window < 3)
       => /\ frechetDistances' = [ch \in Channels |-> 0]
          /\ lastTick'.calls = <<>>
          /\ dpTable' = dpTable]_vars

C5_Witness ==
  /\ ticks = HISTORY_SIZE + 1
  /\ lastTick.window = 1
  /\ lastTick.calls = <<>>
  /\ \E c \in Cells : dpTable[c] > 0
  /\ \A ch \in Channels : frechetDistances[ch] = 0

\* C6: frechetDistances always has NUM_CHANNELS entries, its last entry is
\* always 0, and only the entries 0..NUM_CHANNELS-2 receive an engine result.
C6_LastSlotIsSentinel ==
  /\ DOMAIN frechetDistances = 0 .. (NUM_CHANNELS - 1)
  /\ frechetDistances[NUM_CHANNELS - 1] = 0
  /\ lastTick.stored \subseteq 0 .. (NUM_CHANNELS - 2)

C6_Witness ==
  /\ lastTick.calls # <<>>
  /\ lastTick.stored = 0 .. (NUM_CHANNELS - 2)
  /\ frechetDistances[0] > 0
  /\ frechetDistances[NUM_CHANNELS - 1] = 0

\* C7: every array access of sampling, extraction and recurrence is in
\* bounds: the window exceeds neither FRECHET_WINDOW nor the samples
\* collected, the ring index has a non-negative dividend and lies in
\* 0..HISTORY_SIZE-1, curve indices lie in 0..W-1 and dpTable is indexed
\* within 0..W-1 < FRECHET_WINDOW.
C7_AccessesInBounds ==
  /\ dataIndex \in Slots
  /\ lastTick.cursor \in Slots
  /\ ticks >= 1 =>
       /\ lastTick.window <= FRECHET_WINDOW
       /\ lastTick.window <= Collected
  /\ \A c \in CallsOf(lastTick) :
       /\ c.ch1 \in Channels /\ c.ch2 \in Channels
       /\ c.aw >= 1 /\ c.aw <= FRECHET_WINDOW /\ c.aw <= Collected
       /\ \A x \in c.ring : x[1] >= 0 /\ x[2] \in Slots
       /\ c.curveIdx \subseteq 0 .. (c.aw - 1)
       /\ c.cells \subseteq WindowCells(c.aw)
       /\ c.cells \subseteq Cells

C7_Witness ==
  /\ ticks = HISTORY_SIZE + 3
  /\ \E c \in CallsOf(lastTick) :
       /\ c.aw = 3
       /\ c.cells = WindowCells(c.aw)
       /\ Cardinality(c.ring) = c.aw

\* C8: the memoized recursion returns the value of the bottom-up table at
\* (W-1,W-1), and every cell it fills equals the bottom-up table's cell.
C8_RecursionIsBottomUp ==
  pc = "done" =>
    LET W == CurveLen(curveA)
        F == BottomUp(curveA, curveB)
    IN /\ result.ab = F[<<W - 1, W - 1>>]
       /\ \A c \in WindowCells(W) :
            result.table[c] >= 0 => result.table[c] = F[c]

C8_Witness ==
  /\ pc = "done"
  /\ CurveLen(curveA) = FRECHET_WINDOW
  /\ \A c \in WindowCells(FRECHET_WINDOW) : result.table[c] >= 0
  /\ \E c \in WindowCells(FRECHET_WINDOW) : result.table[c] # result.ab
  /\ result.ab > 0

\* C9: engine(A, B) = engine(B, A) for all curves A, B of equal length.
C9_EngineSymmetric ==
  pc = "done" => result.ab = result.ba

C9_Witness ==
  /\ pc = "done"
  /\ CurveLen(curveA) = FRECHET_WINDOW
  /\ curveA # curveB
  /\ curveA[0] # curveA[1]
  /\ result.ab > 0
  /\ result.ab = result.ba

\* C10: the engine's result is >= 0, >= |A[0]-B[0]| and >= |A[W-1]-B[W-1]|,
\* and so is every frechetDistances[ch] a tick stored from the engine,
\* relative to the oldest and newest samples of that tick's window.
C10_EndpointLowerBounds ==
  /\ pc = "done" =>
       LET W == CurveLen(curveA)
       IN /\ result.ab >= 0
          /\ result.ab >= AbsDiff(curveA[0], curveB[0])
          /\ result.ab >= AbsDiff(curveA[W - 1], curveB[W - 1])
  /\ pc = "loop" =>
       \A c \in CallsOf(lastTick) :
         /\ frechetDistances[c.ch1] >= 0
         /\ frechetDistances[c.ch1] >=
              AbsDiff(Written(c.ch1, c.aw - 1), Written(c.ch2, c.aw - 1))
         /\ frechetDistances[c.ch1] >=
              AbsDiff(Written(c.ch1, 0), Written(c.ch2, 0))

C10_Witness ==
  /\ pc = "loop"
  /\ \E c \in CallsOf(lastTick) :
       /\ Written(c.ch1, 0) = Written(c.ch2, 0)
       /\ Written(c.ch1, c.aw - 1) # Written(c.ch2, c.aw - 1)
       /\ frechetDistances[c.ch1] > 0

\* C11: within one invocation of discreteFrechetDistance every dpTable cell
\* of the window is assigned at most once and every memo hit returns a
\* value assigned earlier in the same invocation, whatever window lengths
\* the earlier invocations left in the shared table; the result is the one
\* the same two curves give on a table with no cell set.
C11_MemoIsPerInvocation ==
  \A c \in CallsOf(lastTick) :
    /\ c.audit.twice = {}
    /\ c.audit.stale = {}
    /\ c.audit.assigned \subseteq WindowCells(c.aw)
    /\ c.audit.hits \subseteq c.audit.assigned
    /\ c.dist = engine([x \in Cells |-> UNSET], c.curve1, c.curve2, c.aw).v

\* a window of 2 run on a table in which an earlier, longer window left
\* computed cells
C11_Witness ==
  \E c \in CallsOf(lastTick) :
    /\ c.aw = 2
    /\ c.audit.hits # {}
    /\ c.audit.assigned = WindowCells(2)
    /\ c.dist > 0
    /\ \E x \in Cells \ WindowCells(2) : dpTable[x] > 0

====
